---- MODULE Spec2Model ----
(***************************************************************************)
(* Model of src/app.js: an express server over one shared sqlite3 handle.  *)
(*   GET /initialize-database   seeds table "products" from an HTTP feed   *)
(*   GET /statistics/:month     SUM/COUNT over the rows of one month       *)
(*   GET /bar-chart/:month      rows of one month grouped by price range   *)
(*   GET /pie-chart/:month      rows of one month grouped by category      *)
(*   GET /combined-data/:month  calls the three routes above over HTTP     *)
(*                                                                         *)
(* SQL NULL, JavaScript NaN and "absent" are the empty sequence << >>; a   *)
(* present value v is << v >>.  Path parameters are sequences of one-      *)
(* character strings.  Prices are counted in units of 1/PriceScale, so a   *)
(* REAL column value such as 100.5 is representable.                       *)
(***************************************************************************)
EXTENDS Integers, Sequences, FiniteSets

(* ------------------------------ bounds --------------------------------- *)
MaxCalls   == 2     \* /initialize-database requests in one run
MaxFeedLen == 2     \* records in the feed
PriceScale == 2     \* price resolution: units per whole currency unit
MaxPrice   == 1001  \* largest whole price classified in SpecBucket

Null == << >>
Some(v) == << v >>
IsNull(x) == x = << >>
Val(x) == x[1]

(* --------------------------- month parameter --------------------------- *)
Digits == <<"0", "1", "2", "3", "4", "5", "6", "7", "8", "9">>
IsDigit(c) == \E i \in 1..10 : Digits[i] = c
DigitVal(c) == (CHOOSE i \in 1..10 : Digits[i] = c) - 1

\* Length of the longest prefix of s made of digits.
RECURSIVE DigitPrefixLen(_)
DigitPrefixLen(s) ==
    IF s = << >> \/ ~IsDigit(Head(s)) THEN 0 ELSE 1 + DigitPrefixLen(Tail(s))

RECURSIVE DigitsValue(_, _)
DigitsValue(s, n) ==
    IF n = 0 THEN 0 ELSE 10 * DigitsValue(s, n - 1) + DigitVal(s[n])

\* JavaScript parseInt(s) in radix 10: an optional sign, then the longest
\* run of digits; whatever follows is ignored; no digits gives NaN.
parseInt(s) ==
    LET neg  == s # << >> /\ Head(s) = "-"
        body == IF neg THEN Tail(s) ELSE s
        n    == DigitPrefixLen(body)
    IN  IF n = 0 THEN Null
        ELSE Some((IF neg THEN -1 ELSE 1) * DigitsValue(body, n))

\* The validation of the three aggregation routes.
InvalidMonth(month) ==
    LET inputMonth == parseInt(month)
    IN  IsNull(inputMonth) \/ Val(inputMonth) < 1 \/ Val(inputMonth) > 12

\* Number.prototype.toString for a non-negative integer.
RECURSIVE toString(_)
toString(n) ==
    IF n < 10 THEN << Digits[n + 1] >>
    ELSE toString(n \div 10) \o << Digits[(n % 10) + 1] >>

RECURSIVE padStart(_, _, _)
padStart(s, len, fill) ==
    IF Len(s) >= len THEN s ELSE padStart(<< fill >> \o s, len, fill)

\* The bound parameter of the three queries.
MonthParam(month) == padStart(toString(Val(parseInt(month))), 2, "0")

\* strftime('%m', dateOfSale): NULL for a missing date, else two digits.
\* A dateOfSale is modelled by its month number (or Null).
StrftimeMonth(dateOfSale) ==
    IF IsNull(dateOfSale) THEN Null
    ELSE Some(<< Digits[(Val(dateOfSale) \div 10) + 1],
                 Digits[(Val(dateOfSale) % 10) + 1] >>)

\* WHERE strftime('%m', dateOfSale) = ?   (NULL = ? is not true)
MonthMatches(row, param) ==
    LET m == StrftimeMonth(row.dateOfSale)
    IN  ~IsNull(m) /\ Val(m) = param

RowsOfMonth(rows, param) ==
    { i \in 1..Len(rows) : MonthMatches(rows[i], param) }

(* ------------------------------ the queries ---------------------------- *)
RECURSIVE SumOver(_, _)
SumOver(S, f) ==
    IF S = {} THEN 0
    ELSE LET x == CHOOSE y \in S : TRUE IN f[x] + SumOver(S \ {x}, f)

\* SQL SUM(expr): NULL when no row contributes a non-NULL value.
SqlSum(S, f) ==
    LET present == { i \in S : ~IsNull(f[i]) }
    IN  IF present = {} THEN Null
        ELSE Some(SumOver(present, [i \in present |-> Val(f[i])]))

\* The SELECT of /statistics/:month; db.all yields one row, result[0].
StatisticsQuery(rows, param) ==
    LET M == RowsOfMonth(rows, param)
    IN  [ totalSaleAmount  |-> SqlSum(M, [i \in M |-> rows[i].price]),
          totalItems       |-> Cardinality(M),
          totalSoldItems   |->
              SqlSum(M, [i \in M |-> Some(IF rows[i].sold = 1 THEN 1 ELSE 0)]),
          totalUnsoldItems |->
              SqlSum(M, [i \in M |-> Some(IF rows[i].sold = 0 THEN 1 ELSE 0)]) ]

\* The WHEN arms of the CASE of /bar-chart/:month, in order.  Arm 1 is
\* "price >= 0 AND price <= 100" (closed below); the others are
\* "price > lo AND price <= hi".
CaseArms_overlap ==
    << [closed |-> TRUE, lo |-> 0,   hi |-> 100, label |-> "0 - 100"],
       [closed |-> TRUE, lo |-> 100, hi |-> 200, label |-> "101 - 200"],
       [closed |-> TRUE, lo |-> 200, hi |-> 300, label |-> "201 - 300"],
       [closed |-> TRUE, lo |-> 300, hi |-> 400, label |-> "301 - 400"],
       [closed |-> TRUE, lo |-> 400, hi |-> 500, label |-> "401 - 500"],
       [closed |-> TRUE, lo |-> 500, hi |-> 600, label |-> "501 - 600"],
       [closed |-> TRUE, lo |-> 600, hi |-> 700, label |-> "601 - 700"],
       [closed |-> TRUE, lo |-> 700, hi |-> 800, label |-> "701 - 800"],
       [closed |-> TRUE, lo |-> 800, hi |-> 900, label |-> "801 - 900"] >>

CaseArms ==
    << [closed |-> TRUE,  lo |-> 0,   hi |-> 100, label |-> "0 - 100"],
       [closed |-> FALSE, lo |-> 100, hi |-> 200, label |-> "101 - 200"],
       [closed |-> FALSE, lo |-> 200, hi |-> 300, label |-> "201 - 300"],
       [closed |-> FALSE, lo |-> 300, hi |-> 400, label |-> "301 - 400"],
       [closed |-> FALSE, lo |-> 400, hi |-> 500, label |-> "401 - 500"],
       [closed |-> FALSE, lo |-> 500, hi |-> 600, label |-> "501 - 600"],
       [closed |-> FALSE, lo |-> 600, hi |-> 700, label |-> "601 - 700"],
       [closed |-> FALSE, lo |-> 700, hi |-> 800, label |-> "701 - 800"],
       [closed |-> FALSE, lo |-> 800, hi |-> 900, label |-> "801 - 900"] >>

\* The ELSE arm.
ElseLabel == "901-above"

\* A comparison with NULL is not true.
ArmMatches(arm, price) ==
    /\ ~IsNull(price)
    /\ IF arm.closed THEN Val(price) >= arm.lo * PriceScale
                     ELSE Val(price) >  arm.lo * PriceScale
    /\ Val(price) <= arm.hi * PriceScale

MatchingArms(price) == { k \in DOMAIN CaseArms : ArmMatches(CaseArms[k], price) }

\* CASE takes the first arm whose condition is true, else the ELSE arm.
priceRange(price) ==
    LET ks == MatchingArms(price)
    IN  IF ks = {} THEN ElseLabel
        ELSE CaseArms[CHOOSE k \in ks : \A j \in ks : k <= j].label

\* (variant: the histogram leaves out rows whose price is negative or NULL)
BarChartQuery_nonneg(rows, param) ==
    LET M == { i \in RowsOfMonth(rows, param) :
                 ~IsNull(rows[i].price) /\ Val(rows[i].price) >= 0 }
    IN  { [ priceRange |-> l,
            itemCount  |-> Cardinality({ i \in M : priceRange(rows[i].price) = l }) ]
          : l \in { priceRange(rows[i].price) : i \in M } }

\* The SELECT of /bar-chart/:month: one output row per group.
BarChartQuery(rows, param) ==
    LET M == RowsOfMonth(rows, param)
    IN  { [ priceRange |-> l,
            itemCount  |-> Cardinality({ i \in M : priceRange(rows[i].price) = l }) ]
          : l \in { priceRange(rows[i].price) : i \in M } }

\* The SELECT of /pie-chart/:month.
PieChartQuery(rows, param) ==
    LET M == RowsOfMonth(rows, param)
    IN  { [ category  |-> c,
            itemCount |-> Cardinality({ i \in M : rows[i].category = c }) ]
          : c \in { rows[i].category : i \in M } }

(* ------------------------------- the feed ------------------------------ *)
\* What a feed record carries besides its id: price, sold, the month of
\* dateOfSale, category.  (title, description and image are stored and never
\* read by a query; they are left out.)
Samples ==
    { << Some(150 * PriceScale), 1, Some(3),  "Electronics" >>,
      << Some(-5 * PriceScale),  0, Some(3),  "Books" >>,
      << Null,                   0, Some(12), "Books" >> }

Records ==
    { [ id |-> i, price |-> s[1], sold |-> s[2], dateOfSale |-> s[3],
        category |-> s[4] ] : i \in 1..MaxFeedLen, s \in Samples }

\* Ids are numbered in the order of their first appearance in the feed (a
\* renaming of ids changes nothing the program does); an id may repeat.
FirstAppearance(f) ==
    \A i \in 1..Len(f) :
        \/ f[i].id = 1
        \/ \E j \in 1..(i - 1) : f[j].id >= f[i].id - 1

Feeds ==
    { f \in UNION { [1..n -> Records] : n \in 0..MaxFeedLen } :
        FirstAppearance(f) }

\* The :month path parameters the requests are made with.
MonthInputs ==
    { <<"3">>, <<"1", "2">>, <<"1", "3">>, <<"a", "b", "c">>,
      <<"3", "a", "b", "c">>, <<"1", ".", "5">> }

\* ... and those /combined-data is requested with: a month, a number that is
\* no month, a text that is no number.
CombinedInputs == { <<"3">>, <<"1", "3">>, <<"a", "b", "c">> }

(* ------------------------------- the state ----------------------------- *)
VARIABLES
    feed,         \* the array the third-party URL serves
    tableExists,  \* my_database.db has the table "products"
    products,     \* its rows, in insertion order
    dbOpen,       \* the shared handle db is open
    inflight,     \* statements handed to sqlite3 whose callback has not run
    closeQueue,   \* db.close() calls waiting for the statements to drain
    crashed,      \* the process died of an uncaught exception
    nCalls,       \* /initialize-database requests received
    call,         \* per request: how far it got and what it fetched
    res,          \* the response to the client's latest query request
    combined,     \* the /combined-data request in progress
    price,        \* SpecBucket: the price classified
    label         \* SpecBucket: its priceRange, "" before classification

storeVars  == << tableExists, products, dbOpen, inflight, closeQueue >>
ingestVars == << nCalls, call >>
queryVars  == << res, combined >>
bucketVars == << price, label >>
vars == << feed, tableExists, products, dbOpen, inflight, closeQueue, crashed,
           nCalls, call, res, combined, price, label >>

\* id INTEGER PRIMARY KEY: an INSERT whose id is already stored fails with a
\* constraint error and stores nothing.
(* variant: the column is not a key *)
InsertRow_noKey(rows, item) == Append(rows, item)

InsertRow(rows, item) ==
    IF \E i \in 1..Len(rows) : rows[i].id = item.id THEN rows
    ELSE Append(rows, item)

RECURSIVE InsertAll(_, _)
InsertAll(rows, items) ==
    IF items = << >> THEN rows
    ELSE InsertAll(InsertRow(rows, Head(items)), Tail(items))

NoCall ==
    [ stage |-> "idle", payload |-> "none", status |-> 0,
      emptyAtStart |-> FALSE, scheduled |-> FALSE ]

NoRes ==
    [ endpoint |-> "none", month |-> << >>, status |-> 0, queried |-> FALSE,
      cause |-> "", invoked |-> 0,
      statistics |-> << >>, barChart |-> << >>, pieChart |-> << >> ]

Idle == [ active |-> FALSE, month |-> << >>, step |-> 0,
          statistics |-> << >>, barChart |-> << >> ]

\* new sqlite3.Database(dbPath) opens the file, which is new, or was left by
\* an earlier run that ingested the feed.
Init ==
    /\ feed \in Feeds
    /\ \/ tableExists = FALSE /\ products = << >>
       \/ tableExists = TRUE  /\ products = InsertAll(<< >>, feed)
    /\ dbOpen = TRUE
    /\ inflight = {}
    /\ closeQueue = 0
    /\ crashed = FALSE
    /\ nCalls = 0
    /\ call = [ k \in 1..MaxCalls |-> NoCall ]
    /\ res = NoRes
    /\ combined = Idle
    /\ price = Null
    /\ label = ""

(* ------------------------ GET /initialize-database --------------------- *)
\* response.data of request k once fetched: the feed, or an empty array.
DataOf(k) == IF call[k].payload = "full" THEN feed ELSE << >>

CreateOp(k) == [ call |-> k, kind |-> "create", idx |-> 0 ]
InsertOp(k, i) == [ call |-> k, kind |-> "insert", idx |-> i ]

\* The route handler up to its first await: axios.get is under way.
InitializeRequest ==
    /\ ~crashed
    /\ nCalls < MaxCalls
    /\ nCalls' = nCalls + 1
    /\ call' = [ call EXCEPT ![nCalls + 1].stage = "fetching" ]
    /\ UNCHANGED << feed, storeVars, crashed, queryVars, bucketVars >>

\* axios.get rejects: the catch logs, initializeDatabase returns normally
\* and the route answers res.json(...), status 200.
FetchFails(k) ==
    /\ ~crashed
    /\ call[k].stage = "fetching"
    /\ call' = [ call EXCEPT ![k] =
                   [ stage |-> "answered", payload |-> "failed", status |-> 200,
                     emptyAtStart |-> FALSE, scheduled |-> FALSE ] ]
    /\ UNCHANGED << feed, storeVars, crashed, nCalls, queryVars, bucketVars >>

\* axios.get resolves; the rest of initializeDatabase runs without a pause:
\* db.run(createTableQuery, cb) and db.close() are handed to the handle, and
\* the route answers 200.  On an open handle the CREATE is started and the
\* close waits behind it; on a closed handle cb gets the error at once (it
\* only logs) and db.close() throws into the catch.
\* payload: "full" the feed, "empty" an empty array, "malformed" not an array.
FetchSucceeds(k, payload) ==
    /\ ~crashed
    /\ call[k].stage = "fetching"
    /\ IF dbOpen
         THEN /\ inflight' = inflight \cup { CreateOp(k) }
              /\ closeQueue' = closeQueue + 1
         ELSE UNCHANGED << inflight, closeQueue >>
    /\ call' = [ call EXCEPT ![k] =
                   [ stage |-> "answered", payload |-> payload, status |-> 200,
                     emptyAtStart |-> products = << >>, scheduled |-> dbOpen ] ]
    /\ UNCHANGED << feed, tableExists, products, dbOpen, crashed, nCalls,
                    queryVars, bucketVars >>

\* The callback of db.run(createTableQuery): CREATE TABLE IF NOT EXISTS has
\* run; data.map starts one INSERT per item.  data.map on a payload that is
\* no array throws in the callback, outside every try: the process dies.
CreateTableDone(k) ==
    /\ ~crashed
    /\ CreateOp(k) \in inflight
    /\ tableExists' = TRUE
    /\ IF call[k].payload = "malformed"
         THEN /\ crashed' = TRUE
              /\ inflight' = inflight \ { CreateOp(k) }
         ELSE /\ crashed' = FALSE
              /\ inflight' = (inflight \ { CreateOp(k) })
                               \cup { InsertOp(k, i) : i \in 1..Len(DataOf(k)) }
    /\ UNCHANGED << feed, products, dbOpen, closeQueue, ingestVars, queryVars,
                    bucketVars >>

\* One INSERT completes (in any order): the row is stored, or the promise is
\* rejected and Promise.all's catch logs.
InsertDone(k, i) ==
    /\ ~crashed
    /\ InsertOp(k, i) \in inflight
    /\ products' = InsertRow(products, DataOf(k)[i])
    /\ inflight' = inflight \ { InsertOp(k, i) }
    /\ UNCHANGED << feed, tableExists, dbOpen, closeQueue, crashed, ingestVars,
                    queryVars, bucketVars >>

\* The queued db.close() runs once no statement is pending.  A second queued
\* close then fails with "Database handle is closed"; it has no callback, so
\* the handle emits 'error' with no listener: the process dies.
DbClose ==
    /\ ~crashed
    /\ dbOpen
    /\ inflight = {}
    /\ closeQueue > 0
    /\ dbOpen' = FALSE
    /\ closeQueue' = 0
    /\ crashed' = (closeQueue > 1)
    /\ UNCHANGED << feed, tableExists, products, inflight, ingestVars,
                    queryVars, bucketVars >>

(* --------------------------- aggregation routes ------------------------ *)
Endpoints == { "statistics", "bar-chart", "pie-chart" }

\* What the handler of one aggregation route answers in the current state:
\* 400 before any store access, else db.all on the shared handle, whose
\* callback answers 500 on an error and 200 with the rows otherwise.
Answer(endpoint, month) ==
    LET base == [ NoRes EXCEPT !.endpoint = endpoint, !.month = month ]
    IN  IF InvalidMonth(month)
          THEN [ base EXCEPT !.status = 400 ]
        ELSE IF ~dbOpen
          THEN [ base EXCEPT !.status = 500, !.queried = TRUE,
                             !.cause = "SQLITE_MISUSE: Database is closed" ]
        ELSE IF ~tableExists
          THEN [ base EXCEPT !.status = 500, !.queried = TRUE,
                             !.cause = "SQLITE_ERROR: no such table: products" ]
        ELSE LET param == MonthParam(month)
             IN  [ base EXCEPT
                     !.status = 200, !.queried = TRUE,
                     !.statistics = IF endpoint = "statistics"
                                      THEN Some(StatisticsQuery(products, param))
                                      ELSE Null,
                     !.barChart   = IF endpoint = "bar-chart"
                                      THEN Some(BarChartQuery(products, param))
                                      ELSE Null,
                     !.pieChart   = IF endpoint = "pie-chart"
                                      THEN Some(PieChartQuery(products, param))
                                      ELSE Null ]

\* GET /statistics/:month, /bar-chart/:month or /pie-chart/:month from the
\* client (who has one request outstanding at a time).
Aggregation(endpoint, month) ==
    /\ ~crashed
    /\ ~combined.active
    /\ res' = Answer(endpoint, month)
    /\ UNCHANGED << feed, storeVars, crashed, ingestVars, combined, bucketVars >>

(* ------------------------- GET /combined-data/:month ------------------- *)
SubRoutes == << "statistics", "bar-chart", "pie-chart" >>

\* The handler up to its first await: no validation, the first axios.get to
\* this server's own /statistics route is about to be made.
CombinedRequest(month) ==
    /\ ~crashed
    /\ ~combined.active
    /\ combined' = [ Idle EXCEPT !.active = TRUE, !.month = month, !.step = 1 ]
    /\ res' = NoRes
    /\ UNCHANGED << feed, storeVars, crashed, ingestVars, bucketVars >>

\* One axios.get to a sub-route and the code up to the next await.  axios
\* rejects on a status outside 2xx: the catch answers 500.  After the third
\* call the three bodies are merged and answered with 200.
CombinedStep ==
    /\ ~crashed
    /\ combined.active
    /\ LET sub == Answer(SubRoutes[combined.step], combined.month)
           out == [ NoRes EXCEPT !.endpoint = "combined-data",
                                 !.month = combined.month,
                                 !.invoked = combined.step,
                                 !.queried = sub.queried ]
       IN  IF sub.status # 200
             THEN /\ res' = [ out EXCEPT !.status = 500, !.cause = sub.cause ]
                  /\ combined' = Idle
           ELSE IF combined.step = 1
             THEN /\ combined' = [ combined EXCEPT !.step = 2,
                                     !.statistics = sub.statistics ]
                  /\ res' = res
           ELSE IF combined.step = 2
             THEN /\ combined' = [ combined EXCEPT !.step = 3,
                                     !.barChart = sub.barChart ]
                  /\ res' = res
           ELSE /\ res' = [ out EXCEPT !.status = 200,
                                       !.statistics = combined.statistics,
                                       !.barChart = combined.barChart,
                                       !.pieChart = sub.pieChart ]
                /\ combined' = Idle
    /\ UNCHANGED << feed, storeVars, crashed, ingestVars, bucketVars >>

(* ---------------------------- specifications --------------------------- *)
Next ==
    \/ InitializeRequest
    \/ \E k \in 1..MaxCalls : FetchFails(k)
    \/ \E k \in 1..MaxCalls, p \in { "full", "empty", "malformed" } :
          FetchSucceeds(k, p)
    \/ \E k \in 1..MaxCalls : CreateTableDone(k)
    \/ \E k \in 1..MaxCalls, i \in 1..MaxFeedLen : InsertDone(k, i)
    \/ DbClose
    \/ \E e \in Endpoints, m \in MonthInputs : Aggregation(e, m)
    \/ \E m \in CombinedInputs : CombinedRequest(m)
    \/ CombinedStep

Spec == Init /\ [][Next]_vars

\* Ingestion alone (no route of NextQuery writes to the store).
NextIngest ==
    \/ InitializeRequest
    \/ \E k \in 1..MaxCalls : FetchFails(k)
    \/ \E k \in 1..MaxCalls, p \in { "full", "empty", "malformed" } :
          FetchSucceeds(k, p)
    \/ \E k \in 1..MaxCalls : CreateTableDone(k)
    \/ \E k \in 1..MaxCalls, i \in 1..MaxFeedLen : InsertDone(k, i)
    \/ DbClose

SpecIngest == Init /\ [][NextIngest]_vars

\* The query routes over a store that an earlier run seeded and that no
\* ingestion is changing: every request sees the same snapshot.
InitAgg == Init /\ tableExists /\ products = InsertAll(<< >>, feed)

NextQuery ==
    \/ \E e \in Endpoints, m \in MonthInputs : Aggregation(e, m)
    \/ \E m \in CombinedInputs : CombinedRequest(m)
    \/ CombinedStep

SpecAgg == InitAgg /\ [][NextQuery]_vars

\* The price classification on its own: every price of the range, and NULL.
Prices ==
    { Null } \cup { Some(v) : v \in (-2 * PriceScale)..(MaxPrice * PriceScale) }

InitBucket ==
    /\ price \in Prices
    /\ label = ""
    /\ feed = << >>
    /\ tableExists = FALSE /\ products = << >>
    /\ dbOpen = TRUE /\ inflight = {} /\ closeQueue = 0 /\ crashed = FALSE
    /\ nCalls = 0 /\ call = [ k \in 1..MaxCalls |-> NoCall ]
    /\ res = NoRes /\ combined = Idle

Classify ==
    /\ label = ""
    /\ label' = priceRange(price)
    /\ UNCHANGED << feed, storeVars, crashed, ingestVars, queryVars, price >>

NextBucket == Classify

SpecBucket == InitBucket /\ [][NextBucket]_vars

(* ------------------------------ properties ----------------------------- *)
\* A path parameter that is an integer in decimal notation, and nothing else.
IsIntegerText(s) ==
    LET body == IF s # << >> /\ Head(s) = "-" THEN Tail(s) ELSE s
    IN  body # << >> /\ \A i \in 1..Len(body) : IsDigit(body[i])

\* ... that is moreover a month, 1..12.
IsMonthText(s) ==
    /\ IsIntegerText(s)
    /\ Head(s) # "-"
    /\ DigitsValue(s, Len(s)) \in 1..12

ClosedCause == "SQLITE_MISUSE: Database is closed"

OpsOf(k) == { op \in inflight : op.call = k }

\* Request k fetched an array and every statement it started has completed.
Complete(k) ==
    /\ call[k].stage = "answered"
    /\ call[k].payload \in { "full", "empty" }
    /\ OpsOf(k) = {}

DistinctIds(f) == \A i, j \in 1..Len(f) : f[i].id = f[j].id => i = j

IdsOf(f) == { f[i].id : i \in 1..Len(f) }

\* C1: on /statistics, /bar-chart and /pie-chart every month parameter that
\* is not a number (also one that merely starts with digits, "3abc", "1.5")
\* or is an integer outside 1..12 is answered 400 and no query is issued.
C1_InvalidMonthRejected ==
    (res.endpoint \in Endpoints /\ ~IsMonthText(res.month))
        => (res.status = 400 /\ ~res.queried)

\* C2: /combined-data answers a month parameter that is not a number or is
\* outside 1..12 with 400, before any of the three sub-routes is called.
C2_CombinedInvalidMonthIs400 ==
    (res.endpoint = "combined-data" /\ ~IsMonthText(res.month))
        => (res.status = 400 /\ res.invoked = 0)

\* C3: an /initialize-database request whose ingestion failed (the fetch
\* failed, or the payload was malformed) is answered 500, never 200.
C3_IngestionFailureIs500 ==
    \A k \in 1..MaxCalls :
        (call[k].stage = "answered" /\ call[k].payload \in { "failed", "malformed" })
            => call[k].status = 500

\* C4: when the fetch succeeds on an empty store, then once all store
\* operations of that ingestion have run, the store holds a row for each
\* record of the fetched feed (whose ids are distinct, as the data model says).
C4_EveryFeedRecordStored ==
    \A k \in 1..MaxCalls :
        (Complete(k) /\ call[k].emptyAtStart /\ DistinctIds(DataOf(k)))
            => \A i \in 1..Len(DataOf(k)) :
                   \E j \in 1..Len(products) : products[j] = DataOf(k)[i]

TenLabels ==
    << "0 - 100", "101 - 200", "201 - 300", "301 - 400", "401 - 500",
       "501 - 600", "601 - 700", "701 - 800", "801 - 900", "901-above" >>

\* C5: the price classification partitions the prices >= 0: each gets one of
\* the ten labels, no two WHEN arms hold together, the ELSE label is given
\* exactly when no arm holds and only to prices > 900, a boundary price
\* 100, 200, ..., 900 gets the lower range, and 101 is in "101 - 200".
C5_PriceRangesPartition ==
    (label # "" /\ ~IsNull(price) /\ Val(price) >= 0) =>
        /\ \E n \in 1..10 : label = TenLabels[n]
        /\ Cardinality(MatchingArms(price)) <= 1
        /\ (label = "901-above") <=> (MatchingArms(price) = {})
        /\ (label = "901-above") => (Val(price) > 900 * PriceScale)
        /\ \A n \in 1..9 :
              (Val(price) = n * 100 * PriceScale) => (label = TenLabels[n])
        /\ (Val(price) = 101 * PriceScale) => (label = "101 - 200")

\* A boundary price has been classified.
C5_Witness ==
    /\ price = Some(100 * PriceScale)
    /\ label = "0 - 100"

ItemCountSum(chart) ==
    SumOver(chart, [ b \in chart |-> b.itemCount ])

\* C6: on one snapshot of the store and for a valid month, the itemCounts of
\* the histogram sum to totalItems of the statistics, and no bucket is 0:
\* for the two bodies a /combined-data answer carries, and for a /bar-chart
\* answer against the statistics query on the same rows.
C6_HistogramSumsToTotalItems ==
    /\ (res.endpoint = "combined-data" /\ res.status = 200) =>
          /\ ItemCountSum(Val(res.barChart)) = Val(res.statistics).totalItems
          /\ \A b \in Val(res.barChart) : b.itemCount >= 1
    /\ (res.endpoint = "bar-chart" /\ res.status = 200) =>
          /\ ItemCountSum(Val(res.barChart))
               = StatisticsQuery(products, MonthParam(res.month)).totalItems
          /\ \A b \in Val(res.barChart) : b.itemCount >= 1

\* A histogram was answered for a month with two rows whose price is
\* negative or missing (and one with a row of another range beside them).
C6_Witness ==
    /\ res.endpoint = "bar-chart"
    /\ res.status = 200
    /\ [ priceRange |-> "901-above", itemCount |-> 2 ] \in Val(res.barChart)
    /\ \E i \in 1..Len(products) :
          ~IsNull(products[i].price) /\ Val(products[i].price) < 0

\* C7: with no record in the store, /statistics with a valid month answers
\* 200 with totalItems = 0 and the sold and unsold counts 0.
C7_EmptyStoreStatistics ==
    (res.endpoint = "statistics" /\ IsMonthText(res.month) /\ products = << >>)
        => /\ res.status = 200
           /\ Val(res.statistics).totalItems = 0
           /\ Val(res.statistics).totalSoldItems = Some(0)
           /\ Val(res.statistics).totalUnsoldItems = Some(0)

\* C8: whatever ingestion requests are made against the feed, no two rows
\* share an id; and once an ingestion of the feed has completed on an open
\* handle the store holds exactly one row per id of the feed, so that a
\* further ingestion leaves the number of rows as it is.
C8_OneRowPerId ==
    /\ \A i, j \in 1..Len(products) : products[i].id = products[j].id => i = j
    /\ \A k \in 1..MaxCalls :
          (Complete(k) /\ call[k].payload = "full" /\ call[k].scheduled)
              => Len(products) = Cardinality(IdsOf(feed))

\* Two ingestions of a feed that has records ran to completion on the open
\* handle.
C8_Witness ==
    /\ products # << >>
    /\ \E k1, k2 \in 1..MaxCalls :
          /\ k1 # k2
          /\ Complete(k1) /\ call[k1].payload = "full" /\ call[k1].scheduled
          /\ Complete(k2) /\ call[k2].payload = "full" /\ call[k2].scheduled

\* C9: no request to /statistics, /bar-chart or /pie-chart with a valid
\* month fails because an ingestion closed the shared handle.
C9_IngestionKeepsStoreUsable ==
    (res.endpoint \in Endpoints /\ IsMonthText(res.month))
        => res.cause # ClosedCause

\* C10: /initialize-database is answered only when the CREATE and every
\* INSERT that request started have completed.
C10_AnsweredAfterStoreOperations ==
    \A k \in 1..MaxCalls :
        call[k].stage = "answered" => OpsOf(k) = {}

====
